---- MODULE Spec2Model ----
(***************************************************************************)
(* Model of the two ODE() overloads of src/cpp/src/OrdDiffEq.cpp: the      *)
(* adaptive-threshold integrator (lines 141-535) and the fixed-step        *)
(* integrator (lines 537-891).                                             *)
(*                                                                         *)
(* A C++ double is modelled as an exact extended rational <<n, d>>:        *)
(*   d > 0  : the number n/d in lowest terms                               *)
(*   <<1,0>>, <<-1,0>> : +inf, -inf ;  <<0,0>> : NaN                       *)
(* so that 1.0/0.0, inf*0 and comparisons with NaN behave as IEEE-754      *)
(* prescribes.  Rounding and signed zeros are not modelled.                *)
(*                                                                         *)
(* The diagnostic channel (debug_output, printf, progress bar) has no      *)
(* effect on the numbers and is left out; the model is the run with        *)
(* debug_output = false.                                                   *)
(***************************************************************************)
EXTENDS Integers, Sequences, FiniteSets, TLC

VARIABLES
    call,               \* the arguments as the caller passed them (never written)
    pc,                 \* "call", "adaptive" / "fixed" (in the do-while), "done", "crashed"
    t, ex, ey, sigs,    \* the caller's vectors, passed by reference
    caller_sige,        \* the caller's sige vector (the parameter sige is passed by value)
    sige, sige2,        \* the callee's copy of sige, and its local sige2
    model, method, couplingpercentage, threshold,   \* parameters, sanitized in place
    nsteps, stepsize,   \* parameters of the fixed-step overload
    equi,               \* equi[0..6] of the radiation-damping collaborator
    sige0,              \* what SigeFromRFAndSigs returned
    coupling, ey0_coupled,
    i, ibs, aes, aex, aey, ddt, taum, ms,
    ratio_x, ratio_y, ratio_s,      \* locals of the last rlx iteration
    xfactor, yfactor, sfactor,
    ibsLog              \* what the growth-rate model returned, call by call

vars == <<call, pc, t, ex, ey, sigs, caller_sige, sige, sige2, model, method,
          couplingpercentage, threshold, nsteps, stepsize, equi, sige0,
          coupling, ey0_coupled, i, ibs, aes, aex, aey, ddt, taum, ms,
          ratio_x, ratio_y, ratio_s, xfactor, yfactor, sfactor, ibsLog>>

----------------------------------------------------------------------------
(* double arithmetic *)

Abs(n) == IF n < 0 THEN -n ELSE n

Sgn(n) == IF n < 0 THEN -1 ELSE IF n > 0 THEN 1 ELSE 0

RECURSIVE GCD(_, _)
GCD(a, b) == IF b = 0 THEN a ELSE GCD(b, a % b)

\* the double with value n/d (d = 0 gives the IEEE special of that sign)
Q(n, d) ==
    IF d = 0 THEN <<Sgn(n), 0>>
    ELSE LET g == GCD(Abs(n), Abs(d))
         IN  <<Sgn(d) * (n \div g), Abs(d) \div g>>

Dbl(n) == <<n, 1>>
NaN    == <<0, 0>>
PosInf == <<1, 0>>
NegInf == <<-1, 0>>

IsNaN(a)    == a = NaN
IsInf(a)    == a[2] = 0 /\ a[1] # 0
IsFinite(a) == a[2] > 0
IsZero(a)   == a[2] > 0 /\ a[1] = 0

Neg(a) == <<-a[1], a[2]>>

\* a + b
Add(a, b) ==
    IF IsNaN(a) \/ IsNaN(b) THEN NaN
    ELSE IF IsInf(a) THEN (IF IsInf(b) /\ b # a THEN NaN ELSE a)
    ELSE IF IsInf(b) THEN b
    ELSE LET g == GCD(a[2], b[2])
         IN  Q(a[1] * (b[2] \div g) + b[1] * (a[2] \div g), (a[2] \div g) * b[2])

\* a - b
Sub(a, b) == Add(a, Neg(b))

\* a * b
Mul(a, b) ==
    IF IsNaN(a) \/ IsNaN(b) THEN NaN
    ELSE IF IsInf(a) \/ IsInf(b)
         THEN (IF IsZero(a) \/ IsZero(b) THEN NaN ELSE <<Sgn(a[1]) * Sgn(b[1]), 0>>)
    ELSE LET g == GCD(Abs(a[1]), b[2])
             h == GCD(Abs(b[1]), a[2])
         IN  Q((a[1] \div g) * (b[1] \div h), (a[2] \div h) * (b[2] \div g))

\* a / b
Div(a, b) ==
    IF IsNaN(a) \/ IsNaN(b) THEN NaN
    ELSE IF IsInf(b) THEN (IF IsInf(a) THEN NaN ELSE Dbl(0))
    ELSE IF IsInf(a) THEN <<Sgn(a[1]) * (IF b[1] < 0 THEN -1 ELSE 1), 0>>
    ELSE IF IsZero(b) THEN <<Sgn(a[1]), 0>>
    ELSE LET g == GCD(Abs(a[1]), Abs(b[1]))
             h == GCD(a[2], b[2])
         IN  Q((a[1] \div g) * (b[2] \div h), (a[2] \div h) * (b[1] \div g))

\* a < b ; false when either is NaN
Less(a, b) ==
    IF IsNaN(a) \/ IsNaN(b) THEN FALSE
    ELSE IF IsInf(a) THEN a = NegInf /\ b # NegInf
    ELSE IF IsInf(b) THEN b = PosInf
    ELSE LET g == GCD(a[2], b[2])
         IN  a[1] * (b[2] \div g) < b[1] * (a[2] \div g)

\* a > b, a >= b
Greater(a, b) == Less(b, a)

GreaterEq(a, b) == ~IsNaN(a) /\ ~IsNaN(b) /\ ~Less(a, b)

\* std::min(a, b) is (b < a) ? b : a ; std::max(a, b) is (a < b) ? b : a
Min(a, b) == IF Less(b, a) THEN b ELSE a

Max(a, b) == IF Less(a, b) THEN b ELSE a

\* fabs
Fabs(a) == <<Abs(a[1]), a[2]>>

\* (int) x : truncation toward zero, for finite x
Trunc(a) == Sgn(a[1]) * (Abs(a[1]) \div a[2])

\* sqrt on the perfect squares the model's inputs are drawn from
ISqrt(n) == CHOOSE k \in 0..n : k * k = n

Sqrt(a) == <<ISqrt(a[1]), ISqrt(a[2])>>

----------------------------------------------------------------------------
(* bounds of the model *)

\* the adaptive do-while is followed for at most MaxIter iterations
MaxIter == 3

\* the fixed-step overload is called with nsteps in -1..MaxNSteps
MaxNSteps == 2

----------------------------------------------------------------------------
(* program constants *)

\* int MaxSteps = 10000;
MaxSteps == 10000

\* the default threshold 1e-4 and the limits 1.0e-6 and 1.0 of its sanitization
ThresholdDefault == Q(1, 10000)

ThresholdLow == Q(1, 1000000)

ThresholdHigh == Dbl(1)

----------------------------------------------------------------------------
(* inputs: what the caller passes and what the external collaborators return *)

\* v[k] of a C++ vector (0-based) held as a TLA+ sequence
At(v, k) == v[k + 1]

Uninit == <<"uninitialized">>

\* equi[0..6] as returned by
\* RadiationDampingLifeTimesAndEquilibriumEmittancesWithPartitionNumbers:
\* tauradx, taurady, taurads, ex0, ey0, sigeoe2, sigs at equilibrium
EquiOf(tx, ty, ts, ex0, ey0, se2, ss) ==
    [k \in 0..6 |-> CASE k = 0 -> tx [] k = 1 -> ty [] k = 2 -> ts [] k = 3 -> ex0
                      [] k = 4 -> ey0 [] k = 5 -> se2 [] k = 6 -> ss]

Lattices ==
    { EquiOf(Dbl(4), Dbl(8), Dbl(4), Dbl(2), Q(1, 2), Dbl(1), Dbl(2)),
      EquiOf(Dbl(20), Dbl(20), Dbl(40), Dbl(2), Q(1, 2), Dbl(1), Dbl(2)),
      EquiOf(Q(1, 2), Dbl(1), Q(1, 2), Dbl(2), Q(1, 2), Dbl(1), Dbl(2)) }

\* the seed values the caller puts in ex, ey, sigs, sige (t is seeded with 0):
\* the equilibrium of the lattices above without coupling, and a state off it
Seeds ==
    { [ex |-> Dbl(2), ey |-> Q(1, 2), sigs |-> Dbl(2), sige |-> Dbl(1)],
      [ex |-> Dbl(4), ey |-> Dbl(1),  sigs |-> Dbl(3), sige |-> Dbl(2)] }

Models == {0, 1, 13, 14}

Methods == {"rlx", "der", "euler"}

CouplingPercentages == {-5, 0, 50, 150}

Thresholds == {Q(1, 2), Dbl(2), Q(1, 10000000)}

StepSizes == {Q(1, 2), Dbl(4)}

\* what a growth-rate model may return: ibs[0], ibs[1], ibs[2] = aes, aex, aey.
\* The models are external; any of these triples may come back for any state:
\* no scattering, growth in all planes, and damping in the vertical plane.
IbsOutputs ==
    { <<Dbl(0), Dbl(0), Dbl(0)>>,
      <<Q(1, 8), Q(1, 4), Q(1, 2)>>,
      <<Q(1, 16), Q(1, 8), Q(-1, 4)>> }

\* what an uninitialized ibs, aes, aex, aey may be read as
GarbageOutputs ==
    { <<Dbl(0), Dbl(0), Dbl(0)>>,
      <<Q(1, 8), Q(1, 4), Q(1, 2)>> }

\* what SigeFromRFAndSigs may return
Sige0Outputs == {Dbl(1), Q(5, 4)}

\* sigsfromsige(sige, gamma, gammatr, omegas): the bunch length that belongs
\* to an energy spread, clight * |eta| / omegas * sige, with the factor 2 here
SigsFromSige(e) == Mul(Dbl(2), e)

----------------------------------------------------------------------------
(* sanitization of the arguments *)

\* if (!(method == "rlx" || method == "der")) method = "der";
SanitizeMethod(m) == IF ~(m = "rlx" \/ m = "der") THEN "der" ELSE m

\* if (threshold > 1.0 || threshold < 1.0e-6) threshold = 1e-4;
SanitizeThreshold(th) ==
    IF Greater(th, ThresholdHigh) \/ Less(th, ThresholdLow) THEN ThresholdDefault ELSE th

\* a sanitization that clamps to the nearest limit instead of to 0
SanitizeCoupling_ClampToNearest(p) == IF p > 100 THEN 100 ELSE IF p < 0 THEN 0 ELSE p

\* if (couplingpercentage > 100 || couplingpercentage < 0) couplingpercentage = 0;
SanitizeCoupling(p) == IF p > 100 \/ p < 0 THEN 0 ELSE p

\* double coupling = (double)couplingpercentage / 100.0;
CouplingOf(p) == Div(Dbl(p), Dbl(100))

\* double ey0_coupled = max(coupling * equi[3], equi[4]);
Ey0Coupled(c, eq) == Max(Mul(c, eq[3]), eq[4])

\* the switch (model) has the cases 1..13 and no default
ModelSupported(m) == m \in 1..13

----------------------------------------------------------------------------
(* the step size estimate and the step budget of the adaptive overload *)

IMin(a, b) == IF b < a THEN b ELSE a

\* b[0], b[1], b[2] of the array a growth-rate model returns
IbsAt(b, k) == b[k + 1]

\* double taum = max(tauradx, taurady); ... taum = min(taum, 1.0);
TauMax(eq, b) ==
    LET m1 == Max(eq[0], eq[1])
        m2 == Max(m1, eq[2])
        m3 == Max(m2, Div(Dbl(1), IbsAt(b, 0)))
        m4 == Max(m3, Div(Dbl(1), IbsAt(b, 1)))
        m5 == Max(m4, Div(Dbl(1), IbsAt(b, 2)))
    IN  Min(m5, Dbl(1))

\* double ddt = min(tauradx, taurady); ... ddt = min(ddt, 1.0 / ibs[2]);
TauMin(eq, b) ==
    LET m1 == Min(eq[0], eq[1])
        m2 == Min(m1, eq[2])
        m3 == Min(m2, Div(Dbl(1), IbsAt(b, 0)))
        m4 == Min(m3, Div(Dbl(1), IbsAt(b, 1)))
    IN  Min(m4, Div(Dbl(1), IbsAt(b, 2)))

\* int ms = (int)(10 * taum / ddt); ms = min(ms, MaxSteps);
StepBudget(tm, d) == IMin(Trunc(Div(Mul(Dbl(10), tm), d)), MaxSteps)

\* the "update timestep" block at the head of the adaptive loop body
AdaptiveStepSize(eq, b) == Div(TauMin(eq, b), Dbl(2))

----------------------------------------------------------------------------
(* the two stepping schemes *)

\* xfactor = 1.0 / (1.0 - ratio_x), and likewise yfactor, sfactor
RlxFactor(ratio) == Div(Dbl(1), Sub(Dbl(1), ratio))

\* ex[i - 1] + ddt * (xfactor * equi[3] - ex[i - 1])
RlxEx(x, d, xf, eq) == Add(x, Mul(d, Sub(Mul(xf, eq[3]), x)))

\* ey[i - 1] + ddt * (((1.0 - coupling) * yfactor + coupling * xfactor) * ey0_coupled - ey[i - 1])
RlxEy(y, d, xf, yf, c, e0c) ==
    Add(y, Mul(d, Sub(Mul(Add(Mul(Sub(Dbl(1), c), yf), Mul(c, xf)), e0c), y)))

\* sige[i - 1] + ddt * (sfactor * sqrt(equi[5]) - sige[i - 1])
RlxSige(e, d, sf, eq) == Add(e, Mul(d, Sub(Mul(sf, Sqrt(eq[5])), e)))

\* dxdt = -(ex[i - 1] - equi[3]) * 2. / tauradx + ex[i - 1] * 2.0 * aex
DerEx(x, d, a, eq) ==
    LET dxdt == Add(Div(Mul(Neg(Sub(x, eq[3])), Dbl(2)), eq[0]), Mul(Mul(x, Dbl(2)), a))
    IN  Add(x, Mul(d, dxdt))

\* dydt = -(ey[i - 1] - ey0_coupled) * 2. / taurady + ey[i - 1] * 2.0 * aey
DerEy(y, d, a, e0c, eq) ==
    LET dydt == Add(Div(Mul(Neg(Sub(y, e0c)), Dbl(2)), eq[1]), Mul(Mul(y, Dbl(2)), a))
    IN  Add(y, Mul(d, dydt))

\* dedt = -(sige[i - 1] - sqrt(equi[5])) / taurads + sige[i - 1] * aes
DerSige(e, d, a, eq) ==
    LET dedt == Add(Div(Neg(Sub(e, Sqrt(eq[5]))), eq[2]), Mul(e, a))
    IN  Add(e, Mul(d, dedt))

\* fabs((v[k] - v[k - 1]) / v[k - 1])
RelChange(v, k) == Fabs(Div(Sub(At(v, k), At(v, k - 1)), At(v, k - 1)))

\* a do-while that goes on only while all three changes are above the threshold
AdaptiveContinue_AllAbove(k, budget, x, y, s, th) ==
    k < budget /\ (   Greater(RelChange(x, k), th)
                   /\ Greater(RelChange(y, k), th)
                   /\ Greater(RelChange(s, k), th))

\* a do-while that tests "i <= ms": one pass too many
AdaptiveContinue_OnePassMore(k, budget, x, y, s, th) ==
    k <= budget /\ (   Greater(RelChange(x, k), th)
                    \/ Greater(RelChange(y, k), th)
                    \/ Greater(RelChange(s, k), th))

\* the condition of the adaptive do-while
AdaptiveContinue(k, budget, x, y, s, th) ==
    k < budget /\ (   Greater(RelChange(x, k), th)
                   \/ Greater(RelChange(y, k), th)
                   \/ Greater(RelChange(s, k), th))

\* a do-while that tests "i <= nsteps": one pass too many
FixedContinue_OnePassMore(k, n) == k <= n

\* the condition of the fixed-step do-while
FixedContinue(k, n) == k < n

\* if (ratio_x >= 1 || ratio_y >= 1 || ratio_s >= 1)
NeedsHalving(rx, ry, rs) ==
    GreaterEq(rx, Dbl(1)) \/ GreaterEq(ry, Dbl(1)) \/ GreaterEq(rs, Dbl(1))

\* v.push_back(x) appending twice
PushBack_Twice(v, x) == Append(Append(v, x), x)

\* v.push_back(x) on a std::vector<double>
PushBack(v, x) == Append(v, x)

----------------------------------------------------------------------------
(* the callee's frame: parameters, locals and the vectors it writes *)

Frame ==
    [pc |-> pc, t |-> t, ex |-> ex, ey |-> ey, sigs |-> sigs, sige |-> sige,
     sige2 |-> sige2, model |-> model, method |-> method,
     couplingpercentage |-> couplingpercentage, threshold |-> threshold,
     nsteps |-> nsteps, stepsize |-> stepsize, equi |-> equi, sige0 |-> sige0,
     coupling |-> coupling, ey0_coupled |-> ey0_coupled, i |-> i, ibs |-> ibs,
     aes |-> aes, aex |-> aex, aey |-> aey, ddt |-> ddt, taum |-> taum, ms |-> ms,
     ratio_x |-> ratio_x, ratio_y |-> ratio_y, ratio_s |-> ratio_s,
     xfactor |-> xfactor, yfactor |-> yfactor, sfactor |-> sfactor]

Store(F) ==
    /\ pc' = F.pc /\ t' = F.t /\ ex' = F.ex /\ ey' = F.ey /\ sigs' = F.sigs
    /\ sige' = F.sige /\ sige2' = F.sige2 /\ model' = F.model /\ method' = F.method
    /\ couplingpercentage' = F.couplingpercentage /\ threshold' = F.threshold
    /\ nsteps' = F.nsteps /\ stepsize' = F.stepsize /\ equi' = F.equi
    /\ sige0' = F.sige0 /\ coupling' = F.coupling /\ ey0_coupled' = F.ey0_coupled
    /\ i' = F.i /\ ibs' = F.ibs /\ aes' = F.aes /\ aex' = F.aex /\ aey' = F.aey
    /\ ddt' = F.ddt /\ taum' = F.taum /\ ms' = F.ms
    /\ ratio_x' = F.ratio_x /\ ratio_y' = F.ratio_y /\ ratio_s' = F.ratio_s
    /\ xfactor' = F.xfactor /\ yfactor' = F.yfactor /\ sfactor' = F.sfactor

\* the frame at entry: the parameters hold the caller's arguments, the
\* reference parameters are the caller's vectors, sige is a copy, locals are unset
EntryFrame(c, eq) ==
    [pc |-> "call", t |-> <<Dbl(0)>>, ex |-> <<c.seed.ex>>, ey |-> <<c.seed.ey>>,
     sigs |-> <<c.seed.sigs>>, sige |-> <<c.seed.sige>>, sige2 |-> <<>>,
     model |-> c.model, method |-> c.method,
     couplingpercentage |-> c.couplingpercentage, threshold |-> c.threshold,
     nsteps |-> c.nsteps, stepsize |-> c.stepsize, equi |-> eq, sige0 |-> Uninit,
     coupling |-> Uninit, ey0_coupled |-> Uninit, i |-> 0, ibs |-> Uninit,
     aes |-> Uninit, aex |-> Uninit, aey |-> Uninit, ddt |-> Uninit,
     taum |-> Uninit, ms |-> 0,
     ratio_x |-> Uninit, ratio_y |-> Uninit, ratio_s |-> Uninit,
     xfactor |-> Uninit, yfactor |-> Uninit, sfactor |-> Uninit]

----------------------------------------------------------------------------
(* adaptive overload, from its entry to the head of the main loop.          *)
(* s0 is what SigeFromRFAndSigs returns, b what ibs points at after the     *)
(* initial switch, g what aes, aex, aey hold while no case has set them.    *)

AdaptiveEnter(F, s0, b, g) ==
    LET cp  == SanitizeCoupling(F.couplingpercentage)
        c   == CouplingOf(cp)
        sg  == PushBack(F.sige, s0)
        tm  == TauMax(F.equi, b)
        d   == TauMin(F.equi, b)
    IN  [F EXCEPT !.pc = "adaptive",
                  !.method = SanitizeMethod(F.method),
                  !.threshold = SanitizeThreshold(F.threshold),
                  !.couplingpercentage = cp,
                  !.coupling = c,
                  !.ey0_coupled = Ey0Coupled(c, F.equi),
                  !.sige0 = s0,
                  !.sige = sg,
                  !.sige2 = <<Mul(At(sg, 0), At(sg, 0))>>,
                  !.i = 0,
                  !.ibs = b,
                  !.aes = IbsAt(g, 0), !.aex = IbsAt(g, 1), !.aey = IbsAt(g, 2),
                  !.taum = tm,
                  !.ddt = d,
                  !.ms = StepBudget(tm, d)]

\* one pass through the body of the adaptive do-while and its condition;
\* r is what the growth-rate model returns for the state at index i
AdaptiveBody(F, r) ==
    LET eq   == F.equi
        d0   == AdaptiveStepSize(eq, F.ibs)
        ok   == ModelSupported(F.model)
        b    == IF ok THEN r ELSE F.ibs
        as   == IF ok THEN IbsAt(r, 0) ELSE F.aes
        ax   == IF ok THEN IbsAt(r, 1) ELSE F.aex
        ay   == IF ok THEN IbsAt(r, 2) ELSE F.aey
        k    == F.i + 1
        rlx  == F.method = "rlx"
        d    == IF rlx THEN Mul(d0, Dbl(4)) ELSE d0
        rx   == Mul(eq[0], ax)
        ry   == Mul(eq[1], ay)
        rs   == Mul(eq[2], as)
        xf   == RlxFactor(rx)
        yf   == RlxFactor(ry)
        sf   == RlxFactor(rs)
        tN   == PushBack(F.t, Add(At(F.t, k - 1), d))
        exN  == PushBack(F.ex, IF rlx THEN RlxEx(At(F.ex, k - 1), d, xf, eq)
                                    ELSE DerEx(At(F.ex, k - 1), d, ax, eq))
        eyN  == PushBack(F.ey, IF rlx THEN RlxEy(At(F.ey, k - 1), d, xf, yf, F.coupling,
                                               F.ey0_coupled)
                                    ELSE DerEy(At(F.ey, k - 1), d, ay, F.ey0_coupled, eq))
        sgN  == PushBack(F.sige, IF rlx THEN RlxSige(At(F.sige, k - 1), d, sf, eq)
                                      ELSE DerSige(At(F.sige, k - 1), d, as, eq))
        sg2N == PushBack(F.sige2, Mul(At(sgN, k), At(sgN, k)))
        ssN  == PushBack(F.sigs, SigsFromSige(At(sgN, k)))
        go   == AdaptiveContinue(k, F.ms, exN, eyN, ssN, F.threshold)
    IN  [F EXCEPT !.pc = IF go THEN "adaptive" ELSE "done",
                  !.ddt = d, !.ibs = b, !.aes = as, !.aex = ax, !.aey = ay, !.i = k,
                  !.ratio_x = IF rlx THEN rx ELSE F.ratio_x,
                  !.ratio_y = IF rlx THEN ry ELSE F.ratio_y,
                  !.ratio_s = IF rlx THEN rs ELSE F.ratio_s,
                  !.xfactor = IF rlx THEN xf ELSE F.xfactor,
                  !.yfactor = IF rlx THEN yf ELSE F.yfactor,
                  !.sfactor = IF rlx THEN sf ELSE F.sfactor,
                  !.t = tN, !.ex = exN, !.ey = eyN, !.sige = sgN, !.sige2 = sg2N,
                  !.sigs = ssN]

----------------------------------------------------------------------------
(* fixed-step overload *)

FixedEnter(F, s0, b, g) ==
    LET cp  == SanitizeCoupling(F.couplingpercentage)
        c   == CouplingOf(cp)
        sg  == PushBack(F.sige, s0)
    IN  [F EXCEPT !.pc = "fixed",
                  !.couplingpercentage = cp,
                  !.method = SanitizeMethod(F.method),
                  !.coupling = c,
                  !.ddt = F.stepsize,
                  !.ey0_coupled = Ey0Coupled(c, F.equi),
                  !.sige0 = s0,
                  !.sige = sg,
                  !.sige2 = <<Mul(At(sg, 0), At(sg, 0))>>,
                  !.i = 0,
                  !.ibs = b,
                  !.aes = IbsAt(g, 0), !.aex = IbsAt(g, 1), !.aey = IbsAt(g, 2)]

\* one pass through the body of the fixed-step do-while and its condition
FixedBody(F, r) ==
    LET eq   == F.equi
        ok   == ModelSupported(F.model)
        b    == IF ok THEN r ELSE F.ibs
        as   == IF ok THEN IbsAt(r, 0) ELSE F.aes
        ax   == IF ok THEN IbsAt(r, 1) ELSE F.aex
        ay   == IF ok THEN IbsAt(r, 2) ELSE F.aey
        k    == F.i + 1
        rlx  == F.method = "rlx"
        rx   == Mul(eq[0], ax)
        ry   == Mul(eq[1], ay)
        rs   == Mul(eq[2], as)
        d    == IF rlx /\ NeedsHalving(rx, ry, rs) THEN Div(F.ddt, Dbl(2)) ELSE F.ddt
        xf   == RlxFactor(rx)
        yf   == RlxFactor(ry)
        sf   == RlxFactor(rs)
        tN   == PushBack(F.t, Add(At(F.t, k - 1), d))
        exN  == PushBack(F.ex, IF rlx THEN RlxEx(At(F.ex, k - 1), d, xf, eq)
                                    ELSE DerEx(At(F.ex, k - 1), d, ax, eq))
        eyN  == PushBack(F.ey, IF rlx THEN RlxEy(At(F.ey, k - 1), d, xf, yf, F.coupling,
                                               F.ey0_coupled)
                                    ELSE DerEy(At(F.ey, k - 1), d, ay, F.ey0_coupled, eq))
        sgN  == PushBack(F.sige, IF rlx THEN RlxSige(At(F.sige, k - 1), d, sf, eq)
                                      ELSE DerSige(At(F.sige, k - 1), d, as, eq))
        sg2N == PushBack(F.sige2, Mul(At(sgN, k), At(sgN, k)))
        ssN  == PushBack(F.sigs, SigsFromSige(At(sgN, k)))
    IN  [F EXCEPT !.pc = IF FixedContinue(k, F.nsteps) THEN "fixed" ELSE "done",
                  !.ddt = d, !.ibs = b, !.aes = as, !.aex = ax, !.aey = ay, !.i = k,
                  !.ratio_x = IF rlx THEN rx ELSE F.ratio_x,
                  !.ratio_y = IF rlx THEN ry ELSE F.ratio_y,
                  !.ratio_s = IF rlx THEN rs ELSE F.ratio_s,
                  !.xfactor = IF rlx THEN xf ELSE F.xfactor,
                  !.yfactor = IF rlx THEN yf ELSE F.yfactor,
                  !.sfactor = IF rlx THEN sf ELSE F.sfactor,
                  !.t = tN, !.ex = exN, !.ey = eyN, !.sige = sgN, !.sige2 = sg2N,
                  !.sigs = ssN]

----------------------------------------------------------------------------
(* the state machine *)

AdaptiveCalls ==
    [mode : {"adaptive"}, model : Models, method : Methods,
     couplingpercentage : CouplingPercentages, threshold : Thresholds,
     nsteps : {0}, stepsize : {Dbl(0)}, seed : Seeds]

FixedCalls ==
    [mode : {"fixed"}, model : Models, method : Methods,
     couplingpercentage : CouplingPercentages, threshold : {Dbl(0)},
     nsteps : -1..MaxNSteps, stepsize : StepSizes, seed : Seeds]

Init ==
    /\ call \in AdaptiveCalls \cup FixedCalls
    /\ caller_sige = <<call.seed.sige>>
    /\ ibsLog = <<>>
    /\ \E eq \in Lattices :
         LET F == EntryFrame(call, eq)
         IN  /\ pc = F.pc /\ t = F.t /\ ex = F.ex /\ ey = F.ey /\ sigs = F.sigs
             /\ sige = F.sige /\ sige2 = F.sige2 /\ model = F.model
             /\ method = F.method /\ couplingpercentage = F.couplingpercentage
             /\ threshold = F.threshold /\ nsteps = F.nsteps
             /\ stepsize = F.stepsize /\ equi = F.equi /\ sige0 = F.sige0
             /\ coupling = F.coupling /\ ey0_coupled = F.ey0_coupled /\ i = F.i
             /\ ibs = F.ibs /\ aes = F.aes /\ aex = F.aex /\ aey = F.aey
             /\ ddt = F.ddt /\ taum = F.taum /\ ms = F.ms
             /\ ratio_x = F.ratio_x /\ ratio_y = F.ratio_y /\ ratio_s = F.ratio_s
             /\ xfactor = F.xfactor /\ yfactor = F.yfactor /\ sfactor = F.sfactor

\* the arguments of the growth-rate call made for the state at index k
IbsArgs(k) == <<At(ex, k), At(ey, k), At(sigs, k), At(sige, k)>>

\* The growth-rate models are pure: called again with the arguments of the
\* previous call (as the first call in the loop is) they return the same rates.
IbsAnswers == IF i = 0 \/ IbsArgs(i) = IbsArgs(i - 1) THEN {ibs} ELSE IbsOutputs

\* ODE(..., threshold, method, debug_output) up to its main loop, supported model
AdaptiveSetup ==
    /\ pc = "call" /\ call.mode = "adaptive" /\ ModelSupported(model)
    /\ \E s0 \in Sige0Outputs, b \in IbsOutputs :
         /\ Store(AdaptiveEnter(Frame, s0, b, <<Uninit, Uninit, Uninit>>))
         /\ ibsLog' = <<b>>
    /\ UNCHANGED <<call, caller_sige>>

\* the same with a model no case of the switch matches: ibs is never set and
\* "1.0 / ibs[0]" reads through an uninitialized pointer.  The read yields
\* arbitrary rates, as do the later reads of aes, aex, aey ...
AdaptiveSetupUnsupported ==
    /\ pc = "call" /\ call.mode = "adaptive" /\ ~ModelSupported(model)
    /\ \E s0 \in Sige0Outputs, b \in GarbageOutputs, g \in GarbageOutputs :
         Store(AdaptiveEnter(Frame, s0, b, g))
    /\ UNCHANGED <<call, caller_sige, ibsLog>>

\* ... or the process dies on the read
AdaptiveSetupCrash ==
    /\ pc = "call" /\ call.mode = "adaptive" /\ ~ModelSupported(model)
    /\ pc' = "crashed"
    /\ UNCHANGED <<call, t, ex, ey, sigs, caller_sige, sige, sige2, model, method,
                   couplingpercentage, threshold, nsteps, stepsize, equi, sige0,
                   coupling, ey0_coupled, i, ibs, aes, aex, aey, ddt, taum, ms,
                   ratio_x, ratio_y, ratio_s, xfactor, yfactor, sfactor, ibsLog>>

AdaptiveIterate ==
    /\ pc = "adaptive" /\ i < MaxIter
    /\ IF ModelSupported(model)
       THEN \E r \in IbsAnswers :
              /\ Store(AdaptiveBody(Frame, r))
              /\ ibsLog' = Append(ibsLog, r)
       ELSE /\ Store(AdaptiveBody(Frame, ibs))
            /\ ibsLog' = ibsLog
    /\ UNCHANGED <<call, caller_sige>>

\* ODE(..., nsteps, stepsize, couplingpercentage, method, debug_output) up to
\* its main loop
FixedSetup ==
    /\ pc = "call" /\ call.mode = "fixed" /\ ModelSupported(model)
    /\ \E s0 \in Sige0Outputs, b \in IbsOutputs :
         /\ Store(FixedEnter(Frame, s0, b, <<Uninit, Uninit, Uninit>>))
         /\ ibsLog' = <<b>>
    /\ UNCHANGED <<call, caller_sige>>

\* with an unsupported model ibs stays unset (and is not read while
\* debug_output is false); aes, aex, aey are read uninitialized in the loop
FixedSetupUnsupported ==
    /\ pc = "call" /\ call.mode = "fixed" /\ ~ModelSupported(model)
    /\ \E s0 \in Sige0Outputs, g \in GarbageOutputs :
         Store(FixedEnter(Frame, s0, Uninit, g))
    /\ UNCHANGED <<call, caller_sige, ibsLog>>

FixedIterate ==
    /\ pc = "fixed"
    /\ IF ModelSupported(model)
       THEN \E r \in IbsAnswers :
              /\ Store(FixedBody(Frame, r))
              /\ ibsLog' = Append(ibsLog, r)
       ELSE /\ Store(FixedBody(Frame, ibs))
            /\ ibsLog' = ibsLog
    /\ UNCHANGED <<call, caller_sige>>

Next ==
    \/ AdaptiveSetup
    \/ AdaptiveSetupUnsupported
    \/ AdaptiveSetupCrash
    \/ AdaptiveIterate
    \/ FixedSetup
    \/ FixedSetupUnsupported
    \/ FixedIterate

Spec == Init /\ [][Next]_vars

----------------------------------------------------------------------------
(* properties *)

Returned == pc = "done"

InLoopOrReturned == pc \in {"adaptive", "fixed", "done"}

Last(v) == v[Len(v)]

\* C1 as stated: the fixed-step overload called with step count N returns
\* with t, ex, ey, sigs of length exactly N + 1, for every integer N.
C1_LengthIsNPlusOne ==
    (call.mode = "fixed" /\ Returned) =>
        /\ Len(t) = call.nsteps + 1
        /\ Len(ex) = call.nsteps + 1
        /\ Len(ey) = call.nsteps + 1
        /\ Len(sigs) = call.nsteps + 1

\* C1 amended: the loop is a do-while, so the body runs max(N, 1) times: the
\* fixed-step overload returns with t, ex, ey, sigs of length N + 1 when
\* N >= 1 and of length 2 when N <= 0, converged or not.
C1_LengthIsPassesPlusOne ==
    (call.mode = "fixed" /\ Returned) =>
        LET n == IF call.nsteps >= 1 THEN call.nsteps + 1 ELSE 2
        IN  Len(t) = n /\ Len(ex) = n /\ Len(ey) = n /\ Len(sigs) = n

\* a fixed-step run of MaxNSteps steps that returns while ex is still moving
C1_Witness ==
    /\ call.mode = "fixed" /\ Returned
    /\ call.nsteps = MaxNSteps /\ Len(t) = MaxNSteps + 1
    /\ Last(ex) # ex[Len(ex) - 1]

\* C2 as stated: the adaptive loop never runs more passes than the budget ms.
\* (Checked on the runs whose initial growth rates are all >= 0, where every
\* timescale that enters ms is positive.)
C2_PassesWithinBudget ==
    (/\ call.mode = "adaptive" /\ InLoopOrReturned /\ ModelSupported(model)
     /\ \A k \in 0..2 : ~Less(IbsAt(ibsLog[1], k), Dbl(0)))
    => i <= ms

\* C2 amended: the body runs before the budget is first tested, so the number
\* of passes never exceeds max(ms, 1) (and hence never 10000); each pass has
\* appended one element to t, ex, ey, sigs.
C2_PassesWithinBudgetOrOne ==
    (call.mode = "adaptive" /\ InLoopOrReturned) =>
        /\ i <= (IF ms >= 1 THEN ms ELSE 1)
        /\ i <= MaxSteps
        /\ Len(t) = i + 1 /\ Len(ex) = i + 1 /\ Len(ey) = i + 1 /\ Len(sigs) = i + 1

\* an adaptive run stopped by the budget, not by convergence
C2_Witness ==
    /\ call.mode = "adaptive" /\ Returned /\ ModelSupported(model)
    /\ ms >= 2 /\ i = ms
    /\ Greater(RelChange(ex, i), threshold)

\* C3: for a model in 1..13, a coupling percentage in 0..100 and a threshold
\* in [1e-6, 1], t is strictly increasing in both modes and both schemes.
C3_TimeStrictlyIncreasing ==
    (/\ call.model \in 1..13
     /\ call.couplingpercentage \in 0..100
     /\ call.mode = "adaptive" =>
            (~Less(call.threshold, ThresholdLow) /\ ~Greater(call.threshold, ThresholdHigh)))
    => \A k \in 2..Len(t) : Less(t[k - 1], t[k])

\* C4: after a run of either mode, the caller's t, ex, ey, sigs and sige have
\* each grown by one element per executed step and share a common length.
\* (Checked on the runs of a supported model.)
C4_CallerSeriesShareLength ==
    (Returned /\ ModelSupported(model)) =>
        /\ Len(t) = i + 1 /\ Len(ex) = i + 1 /\ Len(ey) = i + 1 /\ Len(sigs) = i + 1
        /\ Len(caller_sige) = i + 1

Positive(v) == \A k \in 1..Len(v) : Less(Dbl(0), v[k])

\* C5: from positive seeds, damping times and equilibrium targets, every entry
\* of ex, ey, sigs and sige is strictly positive, in either mode and scheme.
\* (Checked on the runs of a supported model whose growth rates are all 0,
\* where every relaxation factor is 1.)
C5_BeamQuantitiesPositive ==
    (/\ InLoopOrReturned /\ ModelSupported(model)
     /\ \A n \in 1..Len(ibsLog) : ibsLog[n] = <<Dbl(0), Dbl(0), Dbl(0)>>
     /\ \A k \in 0..6 : Less(Dbl(0), equi[k]))
    => Positive(ex) /\ Positive(ey) /\ Positive(sigs) /\ Positive(sige)

\* C6: in a pass of the fixed-step loop with the relaxation scheme in which a
\* product tau * a is >= 1, the step is halved and no relaxation factor of
\* that pass has a zero or negative denominator 1 - ratio.
\* (Checked on the runs of a supported model.)
C6_HalvingAvoidsBadDenominator ==
    [][(/\ pc = "fixed" /\ method = "rlx" /\ ModelSupported(model)
        /\ NeedsHalving(ratio_x', ratio_y', ratio_s'))
       => (/\ ddt' = Div(ddt, Dbl(2))
           /\ Less(Dbl(0), Sub(Dbl(1), ratio_x')) /\ IsFinite(xfactor') /\ Less(Dbl(0), xfactor')
           /\ Less(Dbl(0), Sub(Dbl(1), ratio_y')) /\ IsFinite(yfactor') /\ Less(Dbl(0), yfactor')
           /\ Less(Dbl(0), Sub(Dbl(1), ratio_s')) /\ IsFinite(sfactor') /\ Less(Dbl(0), sfactor'))
      ]_vars

\* C7: a model identifier outside 1..13 makes the run fail explicitly: the
\* loop is never entered, no growth rate is read (so the read cannot crash
\* the run either) and nothing is appended to the series, in either mode.
C7_UnsupportedModelFails ==
    ~(call.model \in 1..13) =>
        /\ pc \notin {"adaptive", "fixed", "done", "crashed"}
        /\ Len(t) = 1 /\ Len(ex) = 1 /\ Len(ey) = 1 /\ Len(sigs) = 1

\* every growth rate the model returned during the run is 0
AllRatesZero ==
    \A n \in 1..Len(ibsLog) : ibsLog[n] = <<Dbl(0), Dbl(0), Dbl(0)>>

\* the seeds are the equilibrium targets
SeededAtEquilibrium ==
    /\ ex[1] = equi[3]
    /\ ey[1] = ey0_coupled
    /\ call.seed.sige = Sqrt(equi[5])
    /\ sigs[1] = equi[6]

\* C8: in adaptive mode with all growth rates 0 and the seeds at the
\* equilibrium targets the loop body runs once and every series ends with
\* length 2.
C8_EquilibriumStopsAfterOnePass ==
    (/\ call.mode = "adaptive" /\ Returned /\ ModelSupported(model)
     /\ AllRatesZero /\ SeededAtEquilibrium)
    => i = 1 /\ Len(t) = 2 /\ Len(ex) = 2 /\ Len(ey) = 2 /\ Len(sigs) = 2

----------------------------------------------------------------------------
(* the run the same call makes with another coupling percentage, given the   *)
(* same answers from the external collaborators                              *)

ReplayEnter(c) ==
    LET F0 == EntryFrame(c, equi)
        b  == IF ModelSupported(c.model) THEN ibsLog[1] ELSE ibs
        g  == IF ModelSupported(c.model) THEN <<Uninit, Uninit, Uninit>>
                                         ELSE <<aes, aex, aey>>
    IN  IF c.mode = "adaptive" THEN AdaptiveEnter(F0, sige0, b, g)
                               ELSE FixedEnter(F0, sige0, b, g)

RECURSIVE ReplayPasses(_, _)
ReplayPasses(F, k) ==
    IF k = i \/ F.pc = "done" THEN F
    ELSE LET r == IF ModelSupported(F.model) THEN ibsLog[k + 2] ELSE F.ibs
         IN  ReplayPasses(IF F.pc = "adaptive" THEN AdaptiveBody(F, r)
                                               ELSE FixedBody(F, r), k + 1)

Replay(c) == ReplayPasses(ReplayEnter(c), 0)

\* C9: a coupling percentage outside 0..100 behaves as coupling percentage 0:
\* with the remaining inputs the same, the run produces the same t, ex, ey,
\* sigs as the run with percentage 0, pass by pass, in both modes and schemes.
C9_OutOfRangeCouplingIsZero ==
    (call.couplingpercentage \notin 0..100 /\ InLoopOrReturned) =>
        LET R == Replay([call EXCEPT !.couplingpercentage = 0])
        IN  R.pc = pc /\ R.t = t /\ R.ex = ex /\ R.ey = ey /\ R.sigs = sigs

\* a relaxation run with percentage 150 that made two passes and returned
C9_Witness ==
    /\ call.couplingpercentage = 150 /\ call.method = "rlx" /\ Returned
    /\ ModelSupported(model) /\ Len(ey) >= 3

\* the threshold the adaptive loop is to compare with: the caller's if it
\* lies in [1e-6, 1], else 1e-4
StatedThreshold ==
    IF ~Less(call.threshold, Q(1, 1000000)) /\ ~Greater(call.threshold, Dbl(1))
    THEN call.threshold ELSE Q(1, 10000)

ChangesDefined ==
    ~IsNaN(RelChange(ex, i)) /\ ~IsNaN(RelChange(ey, i)) /\ ~IsNaN(RelChange(sigs, i))

\* C10 as stated: the adaptive loop makes at least one pass, and after pass i
\* it stops if and only if i has reached ms or the relative changes of ex, ey
\* and sigs are all below the sanitized threshold.
\* (Checked where the three relative changes are numbers.)
C10_StopsIffBudgetOrAllBelow ==
    (call.mode = "adaptive" /\ InLoopOrReturned /\ ModelSupported(model)) =>
        /\ Returned => i >= 1
        /\ (i >= 1 /\ ChangesDefined) =>
             (Returned <=>
                \/ i >= ms
                \/ /\ Less(RelChange(ex, i), StatedThreshold)
                   /\ Less(RelChange(ey, i), StatedThreshold)
                   /\ Less(RelChange(sigs, i), StatedThreshold))

\* C10 amended: the adaptive loop makes at least one pass, and after pass i
\* it stops if and only if i has reached ms or none of the relative changes
\* of ex, ey and sigs is greater than the sanitized threshold: a change equal
\* to the threshold stops the loop.
C10_StopsIffBudgetOrNoneAbove ==
    (call.mode = "adaptive" /\ InLoopOrReturned) =>
        /\ Returned => i >= 1
        /\ i >= 1 =>
             (Returned <=>
                \/ i >= ms
                \/ /\ ~Greater(RelChange(ex, i), StatedThreshold)
                   /\ ~Greater(RelChange(ey, i), StatedThreshold)
                   /\ ~Greater(RelChange(sigs, i), StatedThreshold))

\* the loop goes on after a pass because of one change alone, within budget
C10_Witness ==
    /\ call.mode = "adaptive" /\ pc = "adaptive" /\ i >= 1 /\ i < ms
    /\ ModelSupported(model)
    /\ Greater(RelChange(sigs, i), StatedThreshold)
    /\ ~Greater(RelChange(ex, i), StatedThreshold)
    /\ ~Greater(RelChange(ey, i), StatedThreshold)

----------------------------------------------------------------------------
\* the growth rates the pass that is being taken leaves in aes, aex, aey
RatesOfPass == <<aes', aex', aey'>>

NonNegative(b) == \A k \in 0..2 : ~IsNaN(IbsAt(b, k)) /\ ~Less(IbsAt(b, k), Dbl(0))

FiniteSoFar ==
    \A k \in 1..Len(ex) : IsFinite(ex[k]) /\ IsFinite(ey[k]) /\ IsFinite(sigs[k])

\* the factor the relaxation scheme applies to the adaptive step
StepScale == IF method = "rlx" THEN Dbl(4) ELSE Dbl(1)

\* C11: in adaptive mode the step size used to advance from state i to state
\* i+1 is computed from the growth rates evaluated at state i, the same aes,
\* aex, aey that the pass uses in its update:
\* dt = min(tau_x, tau_y, tau_s, 1/aes, 1/aex, 1/aey) / 2 (times the factor 4
\* of the relaxation scheme), in every pass including those after the first.
\* (Checked on the passes whose growth rates are not negative and that start
\* from finite emittances.)
C11_StepFromCurrentRates ==
    [][(/\ pc = "adaptive" /\ ModelSupported(model)
        /\ NonNegative(ibs) /\ NonNegative(RatesOfPass) /\ FiniteSoFar)
         => ddt' = Mul(AdaptiveStepSize(equi, RatesOfPass), StepScale)]_vars

\* C12: in adaptive mode, in every pass of either scheme, the step by which t
\* is advanced is smaller than the fastest timescale
\* min(tau_x, tau_y, tau_s, 1/aes, 1/aex, 1/aey) active in that pass, all
\* timescales being positive.
C12_StepBelowFastestTimescale ==
    [][(/\ pc = "adaptive" /\ ModelSupported(model)
        /\ NonNegative(ibs) /\ NonNegative(RatesOfPass))
         => Less(Sub(Last(t'), Last(t)), TauMin(equi, RatesOfPass))]_vars

\* C13: in every pass of both modes and both schemes, with the energy-spread
\* series seeded with a single caller value, the bunch length appended in the
\* pass is the bunch-length relation applied to the energy spread newly
\* computed and appended in that same pass (not to an earlier entry of the
\* series), and the cached energy-spread-squared is the square of that value.
C13_BunchLengthFromNewSpread ==
    (InLoopOrReturned /\ i >= 1 /\ ModelSupported(model)) =>
        /\ Last(sigs) = SigsFromSige(Last(sige))
        /\ Last(sige2) = Mul(Last(sige), Last(sige))

\* C14: in fixed-step mode the step applied in a pass is the caller-supplied
\* step size, except that in the relaxation scheme a pass in which some
\* damping-time-times-growth-rate product is >= 1 uses half of it; a pass in
\* which no product is >= 1, and every pass of the derivative scheme, advances
\* t by exactly the caller-supplied step size, whatever happened in earlier
\* passes.
C14_FixedStepIsCallerStep ==
    [][(pc = "fixed" /\ ModelSupported(model))
         => Sub(Last(t'), Last(t)) =
              IF method = "rlx" /\ NeedsHalving(ratio_x', ratio_y', ratio_s')
              THEN Div(stepsize, Dbl(2))
              ELSE stepsize]_vars

IsPrefix(v, w) == Len(v) <= Len(w) /\ SubSeq(w, 1, Len(v)) = v

\* C15: history is append-only in both modes: each pass appends exactly one
\* element to each of t, ex, ey and sigs, so the four series have equal length
\* 1 + (passes completed) at every pass boundary, and no step removes or
\* changes an entry appended earlier, the seed at index 0 included.
C15_HistoryAppendOnly ==
    [][/\ IsPrefix(t, t') /\ IsPrefix(ex, ex')
       /\ IsPrefix(ey, ey') /\ IsPrefix(sigs, sigs')
       /\ pc \in {"adaptive", "fixed"} =>
             /\ Len(t') = Len(t) + 1 /\ Len(ex') = Len(ex) + 1
             /\ Len(ey') = Len(ey) + 1 /\ Len(sigs') = Len(sigs) + 1
       /\ Len(t') = 1 + i' /\ Len(ex') = 1 + i'
       /\ Len(ey') = 1 + i' /\ Len(sigs') = 1 + i']_vars

C15_Witness ==
    /\ Returned /\ i >= 2
    /\ Len(t) = 1 + i /\ Len(ex) = 1 + i /\ Len(ey) = 1 + i /\ Len(sigs) = 1 + i
    /\ At(t, 0) = Dbl(0) /\ At(ex, 0) = call.seed.ex
    /\ At(ey, 0) = call.seed.ey /\ At(sigs, 0) = call.seed.sigs

====
